---- MODULE Spec2Model ----
(***************************************************************************)
(* Model of aw/execute/threader.py: the ThreadManager, which owns the set  *)
(* of Workload threads, the Workload threads themselves, and the callers   *)
(* of the manager's methods.  Every Python statement that reads or writes  *)
(* shared state (the set `threads`, a Workload's started / stopped /       *)
(* state_stop) is a step of its own, so that callers and worker threads    *)
(* interleave the way preemptible Python threads do.                       *)
(***************************************************************************)
EXTENDS Integers, FiniteSets, Sequences, TLC

\* ---------------------------------------------------------------- bounds
\* Workload objects that add_thread may construct (caps thread_nr).
MaxThreadNr == 2
\* run_playbook invocations one Workload may make.
MaxPlays == 2
\* ThreadManager method calls issued over one behaviour.
MaxOps == 3
\* Tokens in one environment-variable string.
MaxTokens == 2
\* Run directory names that runs preparing at the same time can draw.
MaxDirs == 2
\* Frames of run() the interpreter allows on one thread's stack (Python's
\* recursion limit, scaled down).
RecursionLimit == 2

Workers == 1..MaxThreadNr
Callers == {"c1", "c2"}
\* Objects are identities: Workloads are 1..MaxThreadNr, Jobs are other
\* identities, so that a Job is never equal to a Workload.
Jobs == {11, 12}
\* Python's None: no job argument, no current thread.
None == 0

VARIABLES
    \* ThreadManager
    threads,      \* self.threads: set of Workload objects
    thread_nr,    \* self.thread_nr
    stopping,     \* self.stopping
    \* Workload w (an object exists for w <= thread_nr)
    job,          \* self.job
    once,         \* self.once
    started,      \* self.started
    stopped,      \* self.stopped
    state_stop,   \* self.state_stop (Event: is_set)
    tpc,          \* position of w's thread: "new" until Thread.start()
    launched,     \* how often a thread was launched for w
    plays,        \* how often w invoked run_playbook
    stop_pre,     \* latest Workload.stop() on w: <<started, stopped,
                  \*   state_stop, who called it>> when it was entered
    stop_ret,     \* latest Workload.stop() on w: the value it returned
    \* callers of the manager
    call,         \* per caller: the frame of the method it executes
    ops,          \* method calls issued so far
    \* a Workload's execution and its run (ansible_playbook) in progress
    execution,    \* self.execution: None or the JobExecution given
    ppc,          \* position of w's run inside ansible_playbook
    run_exec,     \* the JobExecution of w's latest run
    status,       \* its status
    dir,          \* opts['private_data_dir'] of w's run
    made,         \* w's runner_prep created the directory
    cleanups,     \* how often w's run removed its directory
    result,       \* the runner's outcome in w's run
    prep_err,     \* what w's runner_prep raised
    fs,           \* the run directories that exist
    depth,        \* frames of run() on the stack of w's thread
    wait_at,      \* plays[w] when w last computed wait_sec
    \* environment-variable strings given to _runner_options, its result
    job_env,
    exec_env,
    opts_env

wvars == <<job, once, started, stopped, state_stop>>
tvars == <<tpc, launched, plays, stop_pre, stop_ret>>
mvars == <<threads, thread_nr, stopping>>
vars == <<threads, thread_nr, stopping, job, once, started, stopped,
          state_stop, tpc, launched, plays, stop_pre, stop_ret, call, ops>>
rvars == <<execution, ppc, run_exec, status, dir, made, cleanups, result,
           prep_err, fs, depth, wait_at>>
evars == <<job_env, exec_env, opts_env>>
allvars == <<vars, rvars, evars>>
\* A step of the manager or of a worker outside ansible_playbook
Quiet == UNCHANGED <<rvars, evars>>

\* A caller's frame: op is the method called, fn the method executing
\* (replace_thread runs stop_thread, add_thread, start_thread), pc the
\* position in it, cur / vis / size the state of the set iterator, list
\* the thread_list of stop(), ret / out what the last call returned.
IdleFrame ==
    [op |-> "", fn |-> "", pc |-> "idle", job |-> None, cur |-> None,
     vis |-> {}, size |-> 0, list |-> {}, ret |-> "", out |-> {}]
OffFrame == [IdleFrame EXCEPT !.pc = "off"]

\* Strings are sequences of one-character strings.  A None string is this
\* one-element sequence, which no string of characters is equal to.
NoneStr == <<"None">>

\* No outcome of the runner
NoResult == [errored |-> FALSE, failures |-> 0, set |-> FALSE]

\* No run has been made
RunInit ==
    /\ execution = [w \in Workers |-> None]
    /\ ppc = [w \in Workers |-> ""]
    /\ run_exec = [w \in Workers |-> None]
    /\ status = [w \in Workers |-> ""]
    /\ dir = [w \in Workers |-> None]
    /\ made = [w \in Workers |-> FALSE]
    /\ cleanups = [w \in Workers |-> 0]
    /\ result = [w \in Workers |-> NoResult]
    /\ prep_err = [w \in Workers |-> ""]
    /\ fs = {}
    /\ depth = [w \in Workers |-> 0]
    /\ wait_at = [w \in Workers |-> 0]

\* _runner_options has not been given anything
EnvInit ==
    /\ job_env = NoneStr
    /\ exec_env = NoneStr
    /\ opts_env = [raised |-> "pending", env |-> <<>>]

Init ==
    /\ threads = {}
    /\ thread_nr = 0
    /\ stopping = FALSE
    /\ job = [w \in Workers |-> None]
    /\ once = [w \in Workers |-> FALSE]
    /\ started = [w \in Workers |-> FALSE]
    /\ stopped = [w \in Workers |-> FALSE]
    /\ state_stop = [w \in Workers |-> FALSE]
    /\ tpc = [w \in Workers |-> "new"]
    /\ launched = [w \in Workers |-> 0]
    /\ plays = [w \in Workers |-> 0]
    /\ stop_pre = [w \in Workers |-> <<>>]
    /\ stop_ret = [w \in Workers |-> "none"]
    /\ call = [c \in Callers |-> IdleFrame]
    /\ ops = 0
    /\ RunInit
    /\ EnvInit

\* One caller only: the manager's methods are issued one at a time.
InitSeq ==
    /\ threads = {}
    /\ thread_nr = 0
    /\ stopping = FALSE
    /\ job = [w \in Workers |-> None]
    /\ once = [w \in Workers |-> FALSE]
    /\ started = [w \in Workers |-> FALSE]
    /\ stopped = [w \in Workers |-> FALSE]
    /\ state_stop = [w \in Workers |-> FALSE]
    /\ tpc = [w \in Workers |-> "new"]
    /\ launched = [w \in Workers |-> 0]
    /\ plays = [w \in Workers |-> 0]
    /\ stop_pre = [w \in Workers |-> <<>>]
    /\ stop_ret = [w \in Workers |-> "none"]
    /\ call = [c \in Callers |-> IF c = "c1" THEN IdleFrame ELSE OffFrame]
    /\ ops = 0
    /\ RunInit
    /\ EnvInit

\* ------------------------------------------------------- Workload thread
\* run(): the guards at its head.  Reached by Thread.start() and by the
\* handlers' run(error=True); a return here unwinds every enclosing run().
run_entry(w) ==
    /\ tpc[w] = "run"
    /\ tpc' = [tpc EXCEPT ![w] =
                 IF (once[w] /\ started[w]) \/ stopped[w] THEN "dead" ELSE "mark"]
    /\ UNCHANGED <<mvars, wvars, launched, plays, stop_pre, stop_ret, call, ops>>

\* run(): (after sleep(FAIL_SLEEP) when error) self.started = True.  A
\* recurring worker then computes wait_sec and next_execution_time from
\* the job's schedule, which raises for a schedule that does not parse:
\* the handler calls run(error=True).
run_mark(w) ==
    /\ tpc[w] = "mark"
    /\ started' = [started EXCEPT ![w] = TRUE]
    /\ \E ok \in BOOLEAN :
         tpc' = [tpc EXCEPT ![w] =
                   IF once[w] THEN "play" ELSE IF ok THEN "wait" ELSE "run"]
    /\ UNCHANGED <<mvars, job, once, stopped, state_stop, launched, plays,
                   stop_pre, stop_ret, call, ops>>

\* A loop that does not look at the stop signal.
run_wait_deaf(w) ==
    /\ tpc[w] = "wait"
    /\ tpc' = [tpc EXCEPT ![w] = "play"]
    /\ UNCHANGED <<mvars, wvars, launched, plays, stop_pre, stop_ret, call, ops>>

\* run(): while not self.state_stop.wait(wait_sec): if
\* self.state_stop.is_set(): break.  The wait returns True as soon as the
\* event is set (run returns) and False when wait_sec elapsed with the
\* event unset; nothing ever clears the event, so the wait and is_set()
\* are one read of it.
run_wait(w) ==
    /\ tpc[w] = "wait"
    /\ tpc' = [tpc EXCEPT ![w] = IF state_stop[w] THEN "dead" ELSE "play"]
    /\ UNCHANGED <<mvars, wvars, launched, plays, stop_pre, stop_ret, call, ops>>

\* run_playbook() is invoked
run_playbook(w) ==
    /\ tpc[w] = "play"
    /\ plays[w] < MaxPlays
    /\ plays' = [plays EXCEPT ![w] = @ + 1]
    /\ tpc' = [tpc EXCEPT ![w] = "playing"]
    /\ UNCHANGED <<mvars, wvars, launched, stop_pre, stop_ret, call, ops>>

\* run_playbook() returns, or raises: both handlers call run(error=True)
run_playbook_end(w) ==
    /\ tpc[w] = "playing"
    /\ \E ok \in BOOLEAN :
         tpc' = [tpc EXCEPT ![w] =
                   IF ~ok THEN "run" ELSE IF once[w] THEN "stop" ELSE "wait"]
    /\ UNCHANGED <<mvars, wvars, launched, plays, stop_pre, stop_ret, call, ops>>

\* Workload.stop() is entered on w: self.state_stop.set()
stop_enter(w, by) ==
    /\ stop_pre' = [stop_pre EXCEPT ![w] =
                      <<started[w], stopped[w], state_stop[w], by>>]
    /\ stop_ret' = [stop_ret EXCEPT ![w] = "none"]
    /\ state_stop' = [state_stop EXCEPT ![w] = TRUE]

\* Workload.stop(): self.stopped = True; return True
stop_return(w) ==
    /\ stopped' = [stopped EXCEPT ![w] = TRUE]
    /\ stop_ret' = [stop_ret EXCEPT ![w] = "True"]

\* Workload.stop() called by the worker on itself (once): state_stop.set();
\* join() of the current thread raises RuntimeError, which stop() catches.
self_stop_set(w) ==
    /\ tpc[w] = "stop"
    /\ stop_enter(w, "self")
    /\ tpc' = [tpc EXCEPT ![w] = "stop_started"]
    /\ UNCHANGED <<mvars, job, once, started, stopped, launched, plays, call, ops>>

\* Workload.stop(): self.started = False
self_stop_started(w) ==
    /\ tpc[w] = "stop_started"
    /\ started' = [started EXCEPT ![w] = FALSE]
    /\ tpc' = [tpc EXCEPT ![w] = "stop_stopped"]
    /\ UNCHANGED <<mvars, job, once, stopped, state_stop, launched, plays,
                   stop_pre, stop_ret, call, ops>>

\* Workload.stop(): self.stopped = True; return True
self_stop_stopped(w) ==
    /\ tpc[w] = "stop_stopped"
    /\ stop_return(w)
    /\ tpc' = [tpc EXCEPT ![w] = "remove"]
    /\ UNCHANGED <<mvars, job, once, started, state_stop, launched, plays,
                   stop_pre, call, ops>>

\* run(): self.manager.threads.remove(self.job); return.  The argument is
\* the worker's Job, not the worker: set.remove raises KeyError when the
\* set does not hold it, and `except Exception` then calls run(error=True).
self_remove(w) ==
    /\ tpc[w] = "remove"
    /\ threads' = threads \ {job[w]}
    /\ tpc' = [tpc EXCEPT ![w] = IF job[w] \in threads THEN "dead" ELSE "run"]
    /\ UNCHANGED <<thread_nr, stopping, wvars, launched, plays,
                   stop_pre, stop_ret, call, ops>>

Worker ==
    \E w \in Workers :
        \/ run_entry(w) /\ Quiet
        \/ run_mark(w) /\ Quiet
        \/ run_wait(w) /\ Quiet
        \/ run_playbook(w) /\ Quiet
        \/ run_playbook_end(w) /\ Quiet
        \/ self_stop_set(w) /\ Quiet
        \/ self_stop_started(w) /\ Quiet
        \/ self_stop_stopped(w) /\ Quiet
        \/ self_remove(w) /\ Quiet

\* ------------------------------------------------- ThreadManager callers
Idle(c) == call[c].pc = "idle" /\ ops < MaxOps

\* A method begins: its frame, with the set iterator of its for loop.
Frame(op, fn, pc, j) ==
    [op |-> op, fn |-> fn, pc |-> pc, job |-> j, cur |-> None, vis |-> {},
     size |-> Cardinality(threads), list |-> {}, ret |-> "", out |-> {}]

\* A method returns r (or raises r): the iterator is gone; the frame keeps
\* what the call was and what it gave back (for stop(), its thread_list).
Return(f, r) ==
    [f EXCEPT !.fn = "", !.pc = "idle", !.cur = None, !.vis = {},
              !.size = 0, !.ret = r]

ErrStarted == "RuntimeError: threads can only be started once"
ErrSize == "RuntimeError: Set changed size during iteration"
ErrKey == "KeyError"

\* A start() that launches a thread however often it is called.
CanStartAlways(w) == TRUE

\* Thread.start(), which Workload inherits and does not override, as the
\* threading module documents it: it starts a thread object at most once
\* and raises RuntimeError when called again on the same object (also
\* after the thread has ended).
CanStart(w) == tpc[w] = "new"

\* thread.start() when it launches the thread: run() begins in it
Thread_start(w) ==
    /\ tpc' = [tpc EXCEPT ![w] = "run"]
    /\ launched' = [launched EXCEPT ![w] = @ + 1]

\* add_thread: thread_nr += 1; threads.add(Workload(job, once, ...)).  The
\* new Workload is a new object (a Thread hashes by identity), so the set
\* always grows; thread_nr only numbers the thread's name.
new_thread(j, o) ==
    /\ thread_nr < MaxThreadNr
    /\ thread_nr' = thread_nr + 1
    /\ threads' = threads \cup {thread_nr + 1}
    /\ job' = [job EXCEPT ![thread_nr + 1] = j]
    /\ once' = [once EXCEPT ![thread_nr + 1] = o]
    /\ UNCHANGED <<stopping, started, stopped, state_stop, tvars>>

add_thread(c, j, o) ==
    /\ Idle(c)
    /\ new_thread(j, o)
    /\ call' = [call EXCEPT ![c] = Return(Frame("add_thread", "", "idle", j), "None")]
    /\ ops' = ops + 1

\* start(), start_thread(job), stop_thread(job), list(), list_pretty(),
\* replace_thread(job) are called: each begins with a for loop over threads
\* (replace_thread with that of stop_thread).
start(c) ==
    /\ Idle(c)
    /\ call' = [call EXCEPT ![c] = Frame("start", "start", "next", None)]
    /\ ops' = ops + 1
    /\ UNCHANGED <<mvars, wvars, tvars>>

start_thread(c, j) ==
    /\ Idle(c)
    /\ call' = [call EXCEPT ![c] = Frame("start_thread", "start_thread", "next", j)]
    /\ ops' = ops + 1
    /\ UNCHANGED <<mvars, wvars, tvars>>

stop_thread(c, j) ==
    /\ Idle(c)
    /\ call' = [call EXCEPT ![c] = Frame("stop_thread", "stop_thread", "next", j)]
    /\ ops' = ops + 1
    /\ UNCHANGED <<mvars, wvars, tvars>>

replace_thread(c, j) ==
    /\ Idle(c)
    /\ call' = [call EXCEPT ![c] = Frame("replace_thread", "stop_thread", "next", j)]
    /\ ops' = ops + 1
    /\ UNCHANGED <<mvars, wvars, tvars>>

list(c) ==
    /\ Idle(c)
    /\ call' = [call EXCEPT ![c] = Frame("list", "list", "next", None)]
    /\ ops' = ops + 1
    /\ UNCHANGED <<mvars, wvars, tvars>>

list_pretty(c) ==
    /\ Idle(c)
    /\ call' = [call EXCEPT ![c] = Frame("list_pretty", "list_pretty", "next", None)]
    /\ ops' = ops + 1
    /\ UNCHANGED <<mvars, wvars, tvars>>

\* The frame after stop_thread's or start_thread's loop ended or broke:
\* replace_thread goes on with add_thread, everything else returns None.
AfterLoop(f) ==
    IF f.op = "replace_thread" /\ f.fn = "stop_thread"
    THEN [f EXCEPT !.fn = "add_thread", !.pc = "add", !.cur = None,
                   !.vis = {}, !.size = 0]
    ELSE Return(f, "None")

\* The for loops' next(): the set iterator raises RuntimeError when the
\* set's size is not the one it started with, ends when nothing is left,
\* and else yields some element not yet visited (a set has no order).
iter_next(c) ==
    /\ call[c].pc = "next"
    /\ IF Cardinality(threads) # call[c].size
       THEN call' = [call EXCEPT ![c] = Return(@, ErrSize)]
       ELSE IF threads \ call[c].vis = {}
       THEN call' = [call EXCEPT ![c] = AfterLoop(@)]
       ELSE \E w \in threads \ call[c].vis :
              call' = [call EXCEPT ![c] = [@ EXCEPT !.pc = "body", !.cur = w,
                                                    !.vis = @ \cup {w}]]
    /\ UNCHANGED <<mvars, wvars, tvars, ops>>

\* start(): if not thread.started: thread.start()
start_body(c) ==
    LET w == call[c].cur IN
    /\ call[c].pc = "body"
    /\ call[c].fn = "start"
    /\ IF started[w]
       THEN /\ call' = [call EXCEPT ![c].pc = "next"]
            /\ UNCHANGED <<tpc, launched>>
       ELSE IF CanStart(w)
       THEN /\ Thread_start(w)
            /\ call' = [call EXCEPT ![c].pc = "next"]
       ELSE /\ call' = [call EXCEPT ![c] = Return(@, ErrStarted)]
            /\ UNCHANGED <<tpc, launched>>
    /\ UNCHANGED <<mvars, wvars, plays, stop_pre, stop_ret, ops>>

\* start_thread(): if thread.job == job: if not thread.started:
\*   thread.start(); break
start_thread_body(c) ==
    LET w == call[c].cur IN
    /\ call[c].pc = "body"
    /\ call[c].fn = "start_thread"
    /\ IF ~(job[w] = call[c].job /\ ~started[w])
       THEN /\ call' = [call EXCEPT ![c].pc = "next"]
            /\ UNCHANGED <<tpc, launched>>
       ELSE IF CanStart(w)
       THEN /\ Thread_start(w)
            /\ call' = [call EXCEPT ![c] = Return(@, "None")]
       ELSE /\ call' = [call EXCEPT ![c] = Return(@, ErrStarted)]
            /\ UNCHANGED <<tpc, launched>>
    /\ UNCHANGED <<mvars, wvars, plays, stop_pre, stop_ret, ops>>

\* stop_thread(): if thread.job == job: if thread.started: thread.stop()
\* -- Workload.stop() is entered and sets the event
stop_thread_body(c) ==
    LET w == call[c].cur IN
    /\ call[c].pc = "body"
    /\ call[c].fn = "stop_thread"
    /\ IF job[w] = call[c].job /\ started[w]
       THEN /\ stop_enter(w, c)
            /\ call' = [call EXCEPT ![c].pc = "stop_started"]
       ELSE /\ call' = [call EXCEPT ![c].pc = "next"]
            /\ UNCHANGED <<state_stop, stop_pre, stop_ret>>
    /\ UNCHANGED <<mvars, job, once, started, stopped, tpc, launched, plays, ops>>

\* Workload.stop(): join(THREAD_JOIN_TIMEOUT) returned, the thread ended
\* or not; self.started = False
stop_thread_started(c) ==
    /\ call[c].pc = "stop_started"
    /\ started' = [started EXCEPT ![call[c].cur] = FALSE]
    /\ call' = [call EXCEPT ![c].pc = "stop_stopped"]
    /\ UNCHANGED <<mvars, job, once, stopped, state_stop, tvars, ops>>

\* Workload.stop(): self.stopped = True; return True
stop_thread_stopped(c) ==
    /\ call[c].pc = "stop_stopped"
    /\ stop_return(call[c].cur)
    /\ call' = [call EXCEPT ![c].pc = "remove"]
    /\ UNCHANGED <<mvars, job, once, started, state_stop, tpc, launched,
                   plays, stop_pre, ops>>

\* stop_thread(): self.threads.remove(thread); break
stop_thread_remove(c) ==
    /\ call[c].pc = "remove"
    /\ threads' = threads \ {call[c].cur}
    /\ call' = [call EXCEPT ![c] =
                  IF call[c].cur \in threads THEN AfterLoop(@) ELSE Return(@, ErrKey)]
    /\ UNCHANGED <<thread_nr, stopping, wvars, tvars, ops>>

\* replace_thread(): self.add_thread(job), then start_thread(job) begins
replace_thread_add(c) ==
    /\ call[c].pc = "add"
    /\ new_thread(call[c].job, FALSE)
    /\ call' = [call EXCEPT ![c] = [@ EXCEPT !.fn = "start_thread", !.pc = "next",
                                             !.size = Cardinality(threads')]]
    /\ UNCHANGED ops

\* list(): [thread.job for thread in self.threads]; list_pretty(): one
\* "<job> next run at <time>" line per thread.  out holds an entry per
\* thread visited.
list_body(c) ==
    LET w == call[c].cur IN
    /\ call[c].pc = "body"
    /\ call[c].fn \in {"list", "list_pretty"}
    /\ call' = [call EXCEPT ![c] = [@ EXCEPT !.pc = "next",
                                             !.out = @ \cup {<<w, job[w]>>}]]
    /\ UNCHANGED <<mvars, wvars, tvars, ops>>

\* stop() without its `if self.stopping: return False`.
stop_unguarded(c) ==
    /\ Idle(c)
    /\ ops' = ops + 1
    /\ stopping' = TRUE
    /\ call' = [call EXCEPT ![c] =
                  IF threads = {}
                  THEN Return(Frame("stop", "", "idle", None), "True")
                  ELSE [Frame("stop", "stop", "stop_remove", None)
                          EXCEPT !.list = threads]]
    /\ UNCHANGED <<threads, thread_nr, wvars, tvars>>

\* ThreadManager.stop(): if self.stopping: return False; self.stopping =
\* True; thread_list = list(self.threads)
stop(c) ==
    /\ Idle(c)
    /\ ops' = ops + 1
    /\ IF stopping
       THEN /\ call' = [call EXCEPT ![c] =
                          Return(Frame("stop", "", "idle", None), "False")]
            /\ UNCHANGED stopping
       ELSE /\ stopping' = TRUE
            /\ call' = [call EXCEPT ![c] =
                          IF threads = {}
                          THEN Return(Frame("stop", "", "idle", None), "True")
                          ELSE [Frame("stop", "stop", "stop_remove", None)
                                  EXCEPT !.list = threads]]
    /\ UNCHANGED <<threads, thread_nr, wvars, tvars>>

\* ThreadManager.stop(): self.threads.remove(thread_list[i]), and after
\* the last one return True.  remove raises KeyError when the set no
\* longer holds the thread.
stop_remove(c) ==
    /\ call[c].pc = "stop_remove"
    /\ \E w \in call[c].list \ call[c].vis :
         /\ threads' = threads \ {w}
         /\ call' = [call EXCEPT ![c] =
                       IF w \notin threads THEN Return(@, ErrKey)
                       ELSE IF call[c].list \ call[c].vis = {w} THEN Return(@, "True")
                       ELSE [@ EXCEPT !.vis = @ \cup {w}]]
    /\ UNCHANGED <<thread_nr, stopping, wvars, tvars, ops>>

Caller ==
    \E c \in Callers :
        \/ \E j \in Jobs, o \in BOOLEAN : add_thread(c, j, o) /\ Quiet
        \/ start(c) /\ Quiet
        \/ \E j \in Jobs : start_thread(c, j) /\ Quiet
        \/ \E j \in Jobs : stop_thread(c, j) /\ Quiet
        \/ \E j \in Jobs : replace_thread(c, j) /\ Quiet
        \/ list(c) /\ Quiet
        \/ list_pretty(c) /\ Quiet
        \/ stop(c) /\ Quiet
        \/ iter_next(c) /\ Quiet
        \/ start_body(c) /\ Quiet
        \/ start_thread_body(c) /\ Quiet
        \/ stop_thread_body(c) /\ Quiet
        \/ stop_thread_started(c) /\ Quiet
        \/ stop_thread_stopped(c) /\ Quiet
        \/ stop_thread_remove(c) /\ Quiet
        \/ replace_thread_add(c) /\ Quiet
        \/ list_body(c) /\ Quiet
        \/ stop_remove(c) /\ Quiet

Next == Worker \/ Caller

\* ------------------------------------------------ environment variables

\* The tokens environment-variable strings are built from: "a=1", "a=2",
\* "b=2", and the malformed "a", "a=1=2" and "" (an empty token).
EnvTokens ==
    {<<"a", "=", "1">>, <<"a", "=", "2">>, <<"b", "=", "2">>,
     <<"a">>, <<"a", "=", "1", "=", "2">>, <<>>}

RECURSIVE EnvCsv(_)
\* The strings of n comma-separated tokens.
EnvCsv(n) ==
    IF n = 1 THEN EnvTokens
    ELSE {s \o <<",">> \o t : s \in EnvCsv(n - 1), t \in EnvTokens}

\* Job.environment_vars, JobExecution.environment_vars: None or a string
EnvStrings == {NoneStr} \cup UNION {EnvCsv(n) : n \in 1..MaxTokens}

RECURSIVE split(_, _)
\* str.split(sep): the pieces between the separators, one more than there
\* are separators (an empty string gives one empty piece).
split(s, sep) ==
    IF \A i \in 1..Len(s) : s[i] # sep
    THEN <<s>>
    ELSE LET i == CHOOSE i \in 1..Len(s) :
                     s[i] = sep /\ \A k \in 1..(i - 1) : s[k] # sep
         IN <<SubSeq(s, 1, i - 1)>> \o split(SubSeq(s, i + 1, Len(s)), sep)

\* {**a, **b}: every key of a and of b, with b's value where both have it
dict_merge(a, b) ==
    [k \in DOMAIN a \cup DOMAIN b |-> IF k \in DOMAIN b THEN b[k] ELSE a[k]]

RECURSIVE decode_pairs(_)
\* for kv in ...: env_vars[k] = v -- a later pair overwrites an earlier one
decode_pairs(kvs) ==
    IF kvs = <<>> THEN <<>>
    ELSE LET last == kvs[Len(kvs)]
             one == [k \in {last[1]} |-> last[2]]
         IN dict_merge(decode_pairs(SubSeq(kvs, 1, Len(kvs) - 1)), one)

\* _decode_env_vars: k, v = kv.split('=') raises ValueError unless the
\* token has exactly two pieces, and the function then raises
\* AnsibleConfigError naming src; else it returns the dict.
decode_env_vars(env_vars_csv, src) ==
    LET toks == split(env_vars_csv, ",")
        kvs == [i \in 1..Len(toks) |-> split(toks[i], "=")]
    IN IF \E i \in 1..Len(kvs) : Len(kvs[i]) # 2
       THEN [raised |-> src, env |-> <<>>]
       ELSE [raised |-> "", env |-> decode_pairs(kvs)]

\* An overlay in which the Job's value wins.
env_overlay_job_wins(env_vars, decoded) ==
    IF decoded.raised # "" THEN decoded
    ELSE [raised |-> "", env |-> dict_merge(decoded.env, env_vars)]

\* env_vars = {**env_vars, **_decode_env_vars(...)}
env_overlay(env_vars, decoded) ==
    IF decoded.raised # "" THEN decoded
    ELSE [raised |-> "", env |-> dict_merge(env_vars, decoded.env)]

\* _runner_options: merge job + execution env-vars.  The Job's string is
\* decoded first, and an error there is raised before the Execution's
\* string is looked at.
runner_options_env(je, ee) ==
    LET e0 == [raised |-> "", env |-> <<>>]
        e1 == IF je # NoneStr
              THEN env_overlay(e0.env, decode_env_vars(je, "Job"))
              ELSE e0
    IN IF e1.raised # "" THEN e1
       ELSE IF ee # NoneStr
       THEN env_overlay(e1.env, decode_env_vars(ee, "Execution"))
       ELSE e1

\* ------------------------------------------------------- one run of a job
\* CHOICES_JOB_EXEC_STATUS: the statuses that end an execution
Terminal == {"Finished", "Failed"}

\* The strings a run reads as Job.environment_vars and
\* JobExecution.environment_vars: None, "a=1", "a=2,b=2", and the
\* malformed "a".
EnvInputs ==
    {NoneStr, <<"a", "=", "1">>, <<"a", "=", "2", ",", "b", "=", "2">>, <<"a">>}

\* The names datetime.now().strftime(...) plus five random digits can give
\* to runs that prepare at the same time.
Dirs == 1..MaxDirs

\* The JobExecution runner_prep works on: the one it was given, or (line
\* 94) a new one, made for this run of this worker.
prep_execution(w) ==
    IF execution[w] = None THEN 100 * w + plays[w] ELSE execution[w]

\* ansible_playbook(job, execution), which run_playbook calls: runner_prep,
\* then the runner, then parse_run_result, then runner_cleanup; the run
\* directory is released on every way out once runner_prep has returned
\* it, and what was raised is raised on into run().  The position (ppc)
\* that follows position at, left normally (ok) or by an exception; ppc is
\* "" when no run is in progress.
ansible_playbook(at, ok) ==
    CASE at = "prep" -> IF ok THEN "runner" ELSE "raised"
      [] at = "runner" -> IF ok THEN "parse" ELSE "cleanup_raise"
      [] at = "parse" -> IF ok THEN "cleanup" ELSE "cleanup_raise"
      [] at = "cleanup" -> IF ok THEN "returned" ELSE "raised"
      [] at = "cleanup_raise" -> "raised"

\* A runner_prep that saves the execution as Running at once.
status_at_prep_running == "Running"

\* runner_prep, line 96: _update_execution_status(execution, 'Starting')
status_at_prep == "Starting"

\* runner_prep, lines 93-115: the execution (a new one when None was
\* given) is saved as Starting; _runner_options names the run directory
\* and merges the environment variables; every playbook and inventory
\* must exist.  Each failure raises AnsibleConfigError.
runner_prep(w) ==
    /\ tpc[w] = "playing"
    /\ ppc[w] = ""
    /\ run_exec' = [run_exec EXCEPT ![w] = prep_execution(w)]
    /\ status' = [status EXCEPT ![w] = status_at_prep]
    /\ made' = [made EXCEPT ![w] = FALSE]
    /\ cleanups' = [cleanups EXCEPT ![w] = 0]
    /\ \E d \in Dirs, je \in EnvInputs,
          ee \in IF execution[w] = None THEN {NoneStr} ELSE EnvInputs,
          playbook \in BOOLEAN, inventory \in BOOLEAN :
         LET env == runner_options_env(je, ee)
             err == IF env.raised # "" THEN env.raised
                    ELSE IF ~playbook THEN "playbook"
                    ELSE IF ~inventory THEN "inventory"
                    ELSE ""
         IN /\ prep_err' = [prep_err EXCEPT ![w] = err]
            /\ dir' = [dir EXCEPT ![w] = IF err = "" THEN d ELSE None]
            /\ ppc' = [ppc EXCEPT ![w] =
                         IF err = "" THEN "isdir" ELSE ansible_playbook("prep", FALSE)]
    /\ UNCHANGED <<fs, result, depth, wait_at, execution>>

\* runner_prep sets the execution Running and returns opts
prep_running(w) ==
    /\ status' = [status EXCEPT ![w] = "Running"]
    /\ ppc' = [ppc EXCEPT ![w] = ansible_playbook("prep", TRUE)]

\* runner_prep raises OSError
prep_oserror(w) ==
    /\ prep_err' = [prep_err EXCEPT ![w] = "os"]
    /\ ppc' = [ppc EXCEPT ![w] = ansible_playbook("prep", FALSE)]

\* runner_prep, line 118: if not pdd.is_dir().  A directory that exists
\* is used as it is.
prep_isdir(w) ==
    /\ tpc[w] = "playing"
    /\ ppc[w] = "isdir"
    /\ IF dir[w] \in fs
       THEN prep_running(w)
       ELSE /\ ppc' = [ppc EXCEPT ![w] = "mkdir"]
            /\ UNCHANGED status
    /\ UNCHANGED <<fs, run_exec, made, cleanups, result, prep_err, dir,
                   depth, wait_at, execution>>

\* runner_prep, line 119: pdd.mkdir(), which raises FileExistsError (an
\* OSError) when the directory has appeared since is_dir().
prep_mkdir(w) ==
    /\ tpc[w] = "playing"
    /\ ppc[w] = "mkdir"
    /\ IF dir[w] \in fs
       THEN /\ prep_oserror(w)
            /\ UNCHANGED <<fs, made>>
       ELSE /\ fs' = fs \cup {dir[w]}
            /\ made' = [made EXCEPT ![w] = TRUE]
            /\ ppc' = [ppc EXCEPT ![w] = "chmod"]
            /\ UNCHANGED prep_err
    /\ UNCHANGED <<status, run_exec, cleanups, result, dir, depth, wait_at,
                   execution>>

\* runner_prep, lines 120-124: chmod(pdd, 0o750), which raises OSError
\* when the directory is gone or the mode cannot be set; then the
\* execution is saved as Running and opts is returned.
prep_chmod(w) ==
    /\ tpc[w] = "playing"
    /\ ppc[w] = "chmod"
    /\ \E ok \in BOOLEAN :
         IF ok /\ dir[w] \in fs
         THEN prep_running(w) /\ UNCHANGED prep_err
         ELSE prep_oserror(w) /\ UNCHANGED status
    /\ UNCHANGED <<fs, run_exec, made, cleanups, result, dir, depth, wait_at,
                   execution>>

\* The external runner executes the playbook with opts and returns its
\* outcome (errored, and the failures it counted per host), or raises.
ansible_run(w) ==
    /\ tpc[w] = "playing"
    /\ ppc[w] = "runner"
    /\ \E ok \in BOOLEAN, errored \in BOOLEAN, failures \in 0..1 :
         /\ result' = [result EXCEPT ![w] =
                         IF ok THEN [errored |-> errored, failures |-> failures,
                                     set |-> TRUE]
                         ELSE NoResult]
         /\ ppc' = [ppc EXCEPT ![w] = ansible_playbook("runner", ok)]
    /\ UNCHANGED <<fs, status, run_exec, made, cleanups, prep_err, dir,
                   depth, wait_at, execution>>

\* A terminal status that also looks at the hosts' failed tasks.
result_status_failures(res) ==
    IF res.errored \/ res.failures > 0 THEN "Failed" ELSE "Finished"

\* parse_run_result, lines 132-135 and 157-162: failed=result.errored;
\* Failed if job_result.failed else Finished
result_status(res) == IF res.errored THEN "Failed" ELSE "Finished"

\* parse_run_result: the result and one row per processed host are saved
\* (tasks_failed > 0 changes nothing: `pass`), then the execution's status
\* is set; or an exception leaves it before that (an outcome without the
\* stats it reads, a save that fails).
parse_run_result(w) ==
    /\ tpc[w] = "playing"
    /\ ppc[w] = "parse"
    /\ \E ok \in BOOLEAN :
         /\ status' = [status EXCEPT ![w] =
                         IF ok THEN result_status(result[w]) ELSE @]
         /\ ppc' = [ppc EXCEPT ![w] = ansible_playbook("parse", ok)]
    /\ UNCHANGED <<fs, run_exec, made, cleanups, result, prep_err, dir,
                   depth, wait_at, execution>>

\* runner_cleanup: rmtree(opts['private_data_dir']), which raises
\* FileNotFoundError (an OSError) when the directory does not exist.
runner_cleanup(w) ==
    /\ tpc[w] = "playing"
    /\ ppc[w] \in {"cleanup", "cleanup_raise"}
    /\ fs' = fs \ {dir[w]}
    /\ cleanups' = [cleanups EXCEPT ![w] = IF dir[w] \in fs THEN @ + 1 ELSE @]
    /\ ppc' = [ppc EXCEPT ![w] = ansible_playbook(ppc[w], dir[w] \in fs)]
    /\ UNCHANGED <<status, run_exec, made, result, prep_err, dir, depth,
                   wait_at, execution>>

\* ----------------------------------------------------- the worker's runs

\* The workers ws have been added to a new manager and started, and their
\* threads enter run(); a worker's execution is None or the JobExecution
\* that add_thread was given.
Started(ws) ==
    /\ threads = ws
    /\ thread_nr = Cardinality(ws)
    /\ stopping = FALSE
    /\ job = [w \in Workers |-> IF w \in ws THEN 10 + w ELSE None]
    /\ started = [w \in Workers |-> FALSE]
    /\ stopped = [w \in Workers |-> FALSE]
    /\ state_stop = [w \in Workers |-> FALSE]
    /\ tpc = [w \in Workers |-> IF w \in ws THEN "run" ELSE "new"]
    /\ launched = [w \in Workers |-> IF w \in ws THEN 1 ELSE 0]
    /\ plays = [w \in Workers |-> 0]
    /\ stop_pre = [w \in Workers |-> <<>>]
    /\ stop_ret = [w \in Workers |-> "none"]
    /\ ppc = [w \in Workers |-> ""]
    /\ run_exec = [w \in Workers |-> None]
    /\ status = [w \in Workers |-> ""]
    /\ dir = [w \in Workers |-> None]
    /\ made = [w \in Workers |-> FALSE]
    /\ cleanups = [w \in Workers |-> 0]
    /\ result = [w \in Workers |-> NoResult]
    /\ prep_err = [w \in Workers |-> ""]
    /\ fs = {}
    /\ depth = [w \in Workers |-> IF w \in ws THEN 1 ELSE 0]
    /\ wait_at = [w \in Workers |-> 0]
    /\ EnvInit

\* One worker, one-shot or recurring, with or without an execution, and one
\* caller, who has one more call to make (stop_thread).
InitRun ==
    /\ Started({1})
    /\ \E o \in BOOLEAN : once = [w \in Workers |-> w = 1 /\ o]
    /\ \E e \in {None, 21} : execution = [w \in Workers |-> IF w = 1 THEN e ELSE None]
    /\ call = [c \in Callers |-> IF c = "c1" THEN IdleFrame ELSE OffFrame]
    /\ ops = MaxOps - 1

\* Every worker is recurring and has no execution; nothing calls the
\* manager.
InitDirs ==
    /\ Started(Workers)
    /\ once = [w \in Workers |-> FALSE]
    /\ execution = [w \in Workers |-> None]
    /\ call = [c \in Callers |-> OffFrame]
    /\ ops = 0

\* A handler's self.run(error=True) puts one more run() on the stack
Reentered(w) ==
    depth' = [depth EXCEPT ![w] = IF tpc'[w] = "run" THEN @ + 1 ELSE @]

\* run() is entered while the interpreter's recursion limit allows it
run_enter(w) ==
    /\ depth[w] <= RecursionLimit
    /\ run_entry(w)
    /\ UNCHANGED <<rvars, evars>>

\* self.run(error=True) at the recursion limit raises RecursionError
\* inside the handler: it leaves every enclosing run() and ends the thread.
recursion_error(w) ==
    /\ tpc[w] = "run"
    /\ depth[w] > RecursionLimit
    /\ tpc' = [tpc EXCEPT ![w] = "dead"]
    /\ UNCHANGED <<mvars, wvars, launched, plays, stop_pre, stop_ret, call, ops>>
    /\ UNCHANGED <<rvars, evars>>

\* run(): wait_sec = get_next_cron_execution_sec(self.job.schedule), once
\* before the loop
run_schedule(w) ==
    /\ run_mark(w)
    /\ Reentered(w)
    /\ wait_at' = [wait_at EXCEPT ![w] = IF tpc'[w] = "wait" THEN plays[w] ELSE @]
    /\ UNCHANGED <<execution, ppc, run_exec, status, dir, made, cleanups,
                   result, prep_err, fs, evars>>

\* run(): the loop's wait(wait_sec) with the wait_sec computed before it
run_loop(w) ==
    /\ state_stop[w] \/ plays[w] < MaxPlays
    /\ run_wait(w)
    /\ UNCHANGED <<rvars, evars>>

\* run_playbook(): ansible_playbook(job=self.job, execution=self.execution)
run_playbook_call(w) ==
    /\ run_playbook(w)
    /\ UNCHANGED <<rvars, evars>>

\* ansible_playbook returns, or raises into run()'s handlers
run_playbook_done(w) ==
    /\ ppc[w] \in {"returned", "raised"}
    /\ run_playbook_end(w)
    /\ (tpc'[w] = "run") <=> (ppc[w] = "raised")
    /\ ppc' = [ppc EXCEPT ![w] = ""]
    /\ dir' = [dir EXCEPT ![w] = None]
    /\ result' = [result EXCEPT ![w] = NoResult]
    /\ Reentered(w)
    /\ UNCHANGED <<execution, run_exec, status, made, cleanups, prep_err, fs,
                   wait_at, evars>>

\* the one-shot worker's remove(self.job), whose KeyError re-enters run()
run_remove(w) ==
    /\ self_remove(w)
    /\ Reentered(w)
    /\ UNCHANGED <<execution, ppc, run_exec, status, dir, made, cleanups,
                   result, prep_err, fs, wait_at, evars>>

WorkerLoop ==
    \E w \in Workers :
        \/ run_enter(w)
        \/ recursion_error(w)
        \/ run_schedule(w)
        \/ run_loop(w)
        \/ run_playbook_call(w)
        \/ run_playbook_done(w)

WorkerOnce ==
    \E w \in Workers :
        \/ self_stop_set(w) /\ UNCHANGED <<rvars, evars>>
        \/ self_stop_started(w) /\ UNCHANGED <<rvars, evars>>
        \/ self_stop_stopped(w) /\ UNCHANGED <<rvars, evars>>
        \/ run_remove(w)

Play ==
    \E w \in Workers :
        \/ runner_prep(w) /\ UNCHANGED <<vars, evars>>
        \/ prep_isdir(w) /\ UNCHANGED <<vars, evars>>
        \/ prep_mkdir(w) /\ UNCHANGED <<vars, evars>>
        \/ prep_chmod(w) /\ UNCHANGED <<vars, evars>>
        \/ ansible_run(w) /\ UNCHANGED <<vars, evars>>
        \/ parse_run_result(w) /\ UNCHANGED <<vars, evars>>
        \/ runner_cleanup(w) /\ UNCHANGED <<vars, evars>>

\* stop_thread(job) by the one caller
Stopper ==
    \/ \E j \in Jobs : stop_thread("c1", j) /\ UNCHANGED <<rvars, evars>>
    \/ iter_next("c1") /\ UNCHANGED <<rvars, evars>>
    \/ stop_thread_body("c1") /\ UNCHANGED <<rvars, evars>>
    \/ stop_thread_started("c1") /\ UNCHANGED <<rvars, evars>>
    \/ stop_thread_stopped("c1") /\ UNCHANGED <<rvars, evars>>
    \/ stop_thread_remove("c1") /\ UNCHANGED <<rvars, evars>>

NextRun == WorkerLoop \/ WorkerOnce \/ Play \/ Stopper
NextDirs == WorkerLoop \/ Play

\* _runner_options(job, execution) is called
runner_options ==
    /\ opts_env.raised = "pending"
    /\ opts_env' = runner_options_env(job_env, exec_env)
    /\ UNCHANGED <<vars, rvars, job_env, exec_env>>

InitEnv ==
    /\ threads = {}
    /\ thread_nr = 0
    /\ stopping = FALSE
    /\ job = [w \in Workers |-> None]
    /\ once = [w \in Workers |-> FALSE]
    /\ started = [w \in Workers |-> FALSE]
    /\ stopped = [w \in Workers |-> FALSE]
    /\ state_stop = [w \in Workers |-> FALSE]
    /\ tpc = [w \in Workers |-> "new"]
    /\ launched = [w \in Workers |-> 0]
    /\ plays = [w \in Workers |-> 0]
    /\ stop_pre = [w \in Workers |-> <<>>]
    /\ stop_ret = [w \in Workers |-> "none"]
    /\ call = [c \in Callers |-> OffFrame]
    /\ ops = 0
    /\ RunInit
    /\ job_env \in EnvStrings
    /\ exec_env \in EnvStrings
    /\ opts_env = [raised |-> "pending", env |-> <<>>]

Spec == Init /\ [][Next]_allvars
SpecSeq == InitSeq /\ [][Next]_allvars
SpecRun == InitRun /\ [][NextRun]_allvars
\* Every thread that can take a step is scheduled in the end, and the
\* runner and the file system answer.
SpecRunFair ==
    /\ SpecRun
    /\ WF_allvars(WorkerLoop)
    /\ WF_allvars(WorkerOnce)
    /\ WF_allvars(Play)
SpecDirs == InitDirs /\ [][NextDirs]_allvars
SpecEnv == InitEnv /\ [][runner_options]_allvars

\* ----------------------------------------------------------------- claims
\* What list() returns when no call is in progress: the job of each thread.
ListJobs == {job[w] : w \in threads}

\* The workers registered for job j.
WorkersOf(j) == {w \in threads : job[w] = j}

\* Caller c is inside a for loop over self.threads.
InLoop(c) == call[c].pc \in {"next", "body", "stop_started", "stop_stopped", "remove"}

\* Call op of caller c has returned r.
Returned(c, op, r) == call[c].pc = "idle" /\ call[c].op = op /\ call[c].ret = r

\* C1: with the manager's methods issued one at a time, the active set
\* holds at most one Workload per job.
C1_OneWorkloadPerJob == \A j \in Jobs : Cardinality(WorkersOf(j)) <= 1

\* C2: once two concurrent replace_thread(J) calls for the same job have
\* both returned, the active set holds at most one worker for J.
C2_ConcurrentReplace ==
    (/\ ops = 2
     /\ \A c \in Callers : Returned(c, "replace_thread", "None")
     /\ call["c1"].job = call["c2"].job)
    => Cardinality(WorkersOf(call["c1"].job)) <= 1

\* C3: while a caller iterates the active set, no other caller or worker
\* adds to it or removes from it.
C3_MutualExclusion ==
    [][\A c \in Callers : (InLoop(c) /\ call'[c] = call[c]) => threads' = threads]_vars

\* C4: after a stop() that was not a repeated call, every worker that was
\* registered has its stop signal raised and the active set is empty.
C4_StopSignalsAll ==
    \A c \in Callers :
        Returned(c, "stop", "True")
        => (threads = {} /\ \A w \in call[c].list : state_stop[w])

\* C5: after stop_thread(job) has returned, list() does not contain job,
\* whatever state the registered worker was in.
C5_StopThreadRemoves ==
    \A c \in Callers :
        Returned(c, "stop_thread", "None") => call[c].job \notin ListJobs

RunCompleted(w) == stop_pre[w] # <<>> /\ stop_pre[w][4] = "self"

\* C7: after the thread of a one-shot worker whose run completed has
\* ended, the worker is marked stopped and is not in the active set.
C7_OnceDeregisters ==
    \A w \in Workers :
        (once[w] /\ tpc[w] = "dead" /\ RunCompleted(w))
        => (stopped[w] /\ w \notin threads)

\* C8: a one-shot worker invokes run_playbook at most once.
C8_OncePlaysOnce == \A w \in Workers : once[w] => plays[w] <= 1

\* C9: ThreadManager.stop() on a manager that is already stopping
\* returns False and leaves the active set and every worker's started,
\* stopped and stop-signal state unchanged.
C9_StopWhileStopping ==
    [][\A c \in Callers :
         (stopping /\ stop(c))
         => (/\ call'[c].ret = "False"
             /\ call'[c].pc = "idle"
             /\ UNCHANGED <<threads, stopping, started, stopped, state_stop>>)]_vars

\* C9 witness: a stop() has returned False while workers are registered.
C9_Witness == \E c \in Callers : Returned(c, "stop", "False") /\ threads # {}

\* C10: Workload.stop() on a worker that is already stopped returns a
\* falsy result and leaves started, stopped and the stop signal unchanged.
C10_StopWhenStopped ==
    \A w \in Workers :
        (stop_pre[w] # <<>> /\ stop_pre[w][2] /\ stop_ret[w] # "none")
        => (/\ stop_ret[w] = "False"
            /\ <<started[w], stopped[w], state_stop[w]>> = SubSeq(stop_pre[w], 1, 3))

\* The latest runner_prep of w raised AnsibleConfigError.
ConfigError(w) == prep_err[w] \in {"Job", "Execution", "playbook", "inventory"}

\* A run of w has ended: ansible_playbook returned or raised.
RunOver(w) == run_exec[w] # None /\ ppc[w] \in {"", "returned", "raised"}

\* C11: when runner_prep failed with a configuration error, the
\* execution's status is Starting (it has not reached Running) and that
\* attempt created no run directory.
C11_ConfigErrorStarting ==
    \A w \in Workers :
        (ConfigError(w) /\ ppc[w] \in {"", "raised"})
        => (status[w] = "Starting" /\ ~made[w])

\* C11 witness: a malformed Execution string made runner_prep fail and the
\* worker's handler has taken over.
C11_Witness ==
    \E w \in Workers :
        /\ prep_err[w] = "Execution"
        /\ ppc[w] = ""
        /\ tpc[w] # "playing"
        /\ status[w] = "Starting"

\* C12: a run directory that runner_prep created has been removed, once,
\* when the run has ended, whichever way it ended.
C12_DirRemoved == \A w \in Workers : (RunOver(w) /\ made[w]) => cleanups[w] = 1

\* C13: parse_run_result sets the status to Failed exactly when the
\* outcome's errored flag is true and to Finished otherwise, whatever the
\* hosts' failures; and no other step gives an execution a terminal status.
C13_TerminalStatus ==
    [][\A w \in Workers :
         /\ (ppc[w] = "parse" /\ ppc'[w] = "cleanup")
            => status'[w] = (IF result[w].errored THEN "Failed" ELSE "Finished")
         /\ (status'[w] \in Terminal
               /\ (status'[w] # status[w] \/ run_exec'[w] # run_exec[w]))
            => ppc[w] = "parse"]_allvars

\* C13 witness: a run whose outcome counts failed tasks but is not errored
\* has been parsed, and its execution is Finished.
C13_Witness ==
    \E w \in Workers :
        /\ ppc[w] = "cleanup"
        /\ result[w].set
        /\ ~result[w].errored
        /\ result[w].failures > 0
        /\ status[w] = "Finished"

\* What a string gives on its own: nothing when None.
EnvOf(str) == IF str = NoneStr THEN <<>> ELSE decode_env_vars(str, "").env

\* C14: for well-formed Job and Execution strings the merged mapping has
\* every key of either string, with the Execution's value for a key of
\* both (and the Job's value for a key of the Job alone).
C14_ExecutionWins ==
    opts_env.raised = ""
    => /\ DOMAIN opts_env.env = DOMAIN EnvOf(job_env) \cup DOMAIN EnvOf(exec_env)
       /\ \A k \in DOMAIN EnvOf(exec_env) : opts_env.env[k] = EnvOf(exec_env)[k]
       /\ \A k \in DOMAIN EnvOf(job_env) \ DOMAIN EnvOf(exec_env) :
            opts_env.env[k] = EnvOf(job_env)[k]

\* C14 witness: both strings set a, to different values, and the Job's
\* string also sets b.
C14_Witness ==
    /\ opts_env.raised = ""
    /\ job_env = <<"a", "=", "1", ",", "b", "=", "2">>
    /\ exec_env = <<"a", "=", "2">>
    /\ opts_env.env[<<"a">>] = <<"2">>
    /\ opts_env.env[<<"b">>] = <<"2">>

\* C15: once the stop signal of a recurring worker is raised the worker
\* does not decide on another run (a run it has decided on or has in
\* flight is completed), and its thread ends.
C15_StopEndsLoop ==
    /\ [][\A w \in Workers :
            (~once[w] /\ state_stop[w] /\ tpc[w] # "play") => tpc'[w] # "play"]_allvars
    /\ \A w \in Workers :
         (~once[w] /\ state_stop[w] /\ launched[w] = 1) ~> (tpc[w] = "dead")

\* C15 witness: a recurring worker whose run failed, whose handler
\* re-entered run(), and whose stop signal is raised, has ended without
\* running into the recursion limit.
C15_Witness ==
    \E w \in Workers :
        /\ ~once[w]
        /\ state_stop[w]
        /\ tpc[w] = "dead"
        /\ plays[w] >= 1
        /\ depth[w] >= 2
        /\ depth[w] <= RecursionLimit

\* C16: the thread of a recurring worker ends only after its stop signal
\* was raised.
C16_EndsOnlyOnStop ==
    \A w \in Workers : (~once[w] /\ tpc[w] = "dead") => state_stop[w]

\* C17: when a recurring worker has waited and goes on to its run N+1, the
\* delay it waited for was computed after run N.
C17_DelayRecomputed ==
    \A w \in Workers : (~once[w] /\ tpc[w] = "play") => wait_at[w] = plays[w]

StatusRank(st) ==
    CASE st = "" -> 0
      [] st = "Starting" -> 1
      [] st = "Running" -> 2
      [] st \in Terminal -> 3

\* C18: the status of one and the same JobExecution only moves forward
\* along Starting, Running, Finished or Failed, and a terminal status is
\* never changed.
C18_StatusForward ==
    [][\A w \in Workers :
         (run_exec[w] # None /\ run_exec'[w] = run_exec[w] /\ status'[w] # status[w])
         => (StatusRank(status'[w]) > StatusRank(status[w]))]_allvars

\* C19: a worker begins its run N+1 only when the execution of its run N
\* has a terminal status.
C19_RunsFinalized ==
    [][\A w \in Workers :
         (plays'[w] > plays[w] /\ plays[w] >= 1) => status[w] \in Terminal]_allvars

\* Run w holds a run directory: runner_prep found or created it, and the
\* run has not removed it yet.
Using(w) == ppc[w] \in {"chmod", "runner", "parse", "cleanup", "cleanup_raise"}

\* C20: no two runs hold the same run directory.
C20_DirExclusive ==
    \A w1, w2 \in Workers :
        (w1 # w2 /\ Using(w1) /\ Using(w2)) => dir[w1] # dir[w2]

====
